---- MODULE Spec2Model ----
(***************************************************************************)
(* A model of pictures_clustring.py: the disk-backed memo cache (cache),   *)
(* the per-file metadata extraction (get_metadata, get_location with its   *)
(* retry loop) and the grouping loop of cluster_images.  One process runs  *)
(* at a time; the cache files and the output tree survive a restart.       *)
(***************************************************************************)
EXTENDS Integers, Sequences, FiniteSets, TLC

(* ------------------------------ bounds -------------------------------- *)
MaxFiles == 2          \* files in the input directory
MaxProcs == 2          \* runs of the program over the same disk
MaxLen == 3            \* records handed to the grouping loop (SpecGroup)
MaxDate == 2           \* days the records are dated (SpecGroup)

(* ------------------------- program constants -------------------------- *)
RetryBudget == 10      \* for attempt in range(10)
NoDate == 0            \* the date None of an unsupported file
GeoFile == "geo_coordinate_cache.pkl"
MediaFile == "media_indexing.pkl"
CacheFiles == {GeoFile, MediaFile}
Choices == {"type1", "type2", "type3"}
DefaultService == "google"

(* ----------------------------- input world ---------------------------- *)
\* File names in listing order (files_list.sort()).
Names == <<"f1", "f2", "f3", "f4", "f5">>

\* GPS tag sets found in the pictures.  Degrees, minutes and thousandths of
\* a second; G1 and G2 differ by 0.001" and G3 is another place.  GP holds a
\* latitude without a longitude.
GeoTags ==
  [G1 |-> [GPSLatitude |-> <<48, 51, 24000>>, GPSLatitudeRef |-> "N",
           GPSLongitude |-> <<2, 21, 3000>>, GPSLongitudeRef |-> "E"],
   G2 |-> [GPSLatitude |-> <<48, 51, 24001>>, GPSLatitudeRef |-> "N",
           GPSLongitude |-> <<2, 21, 3000>>, GPSLongitudeRef |-> "E"],
   G3 |-> [GPSLatitude |-> <<40, 25, 0>>, GPSLatitudeRef |-> "S",
           GPSLongitude |-> <<3, 42, 0>>, GPSLongitudeRef |-> "W"],
   GP |-> [GPSLatitude |-> <<48, 51, 24000>>, GPSLatitudeRef |-> "N"]]

\* The kinds of file the directory may hold.  exif: the picture has an EXIF
\* block; gps: the id of its GPSInfo tag set or "none"; dto: DateTimeOriginal
\* as a day number (NoDate when the tag is absent); mtime: the day of the
\* last modification; mvhd: creation_time of the movie-header box of a video,
\* in seconds since 1904-01-01 (here day 1), NoDate without the box.
Kinds ==
  { [ext |-> "jpg", exif |-> TRUE,  gps |-> "G1",   dto |-> 1,      mtime |-> 2, mvhd |-> NoDate],
    [ext |-> "jpg", exif |-> TRUE,  gps |-> "G2",   dto |-> NoDate, mtime |-> 2, mvhd |-> NoDate],
    [ext |-> "jpg", exif |-> TRUE,  gps |-> "G3",   dto |-> 1,      mtime |-> 2, mvhd |-> NoDate],
    [ext |-> "jpg", exif |-> TRUE,  gps |-> "none", dto |-> 1,      mtime |-> 2, mvhd |-> NoDate],
    [ext |-> "jpg", exif |-> TRUE,  gps |-> "GP",   dto |-> NoDate, mtime |-> 1, mvhd |-> NoDate],
    [ext |-> "jpg", exif |-> FALSE, gps |-> "none", dto |-> NoDate, mtime |-> 1, mvhd |-> NoDate],
    [ext |-> "mp4", exif |-> FALSE, gps |-> "none", dto |-> NoDate, mtime |-> 2, mvhd |-> 2082931200],
    [ext |-> "txt", exif |-> FALSE, gps |-> "none", dto |-> NoDate, mtime |-> 1, mvhd |-> NoDate] }

Directories == UNION { [1..n -> Kinds] : n \in 0..MaxFiles }

\* What a reverse-geocoding request may answer (location.raw).
Raws ==
  [paris  |-> [address_components |->
                 << [types |-> {"plus_code"}, long_name |-> "8FW4V900+"],
                    [types |-> {"locality", "political"}, long_name |-> "Paris"],
                    [types |-> {"country", "political"}, long_name |-> "France"] >>,
               types |-> <<"street_address">>],
   plus   |-> [address_components |->
                 << [types |-> {"plus_code"}, long_name |-> "8G3QM39P+6P"] >>,
               types |-> <<"plus_code">>],
   madrid |-> [properties |-> [country |-> "Spain", city |-> "Madrid"]]]

RawNames == DOMAIN Raws

(* ------------------------------- state -------------------------------- *)
VARIABLES
  dir,            \* the input directory: a sequence of Kinds, in name order
  disk,           \* the two cache files: [exists, map]
  made,           \* output directories created (os.makedirs)
  copies,         \* <<directory, file>> pairs written by shutil.copy2
  proc,           \* number of the running process
  pc,             \* where the process is
  err,            \* the exception that ended the process, "" if none
  geo_service,    \* the --geo_service option
  CACHE_DB,       \* the module global: None or a dict
  location_cache, \* the module global dict of get_location
  idx,            \* position of the indexing loop in files_list
  cur,            \* locals of the get_metadata call in progress
  attempt,        \* loop variable of the retry loop
  sleeps,         \* time.sleep(1) calls of the get_location call in progress
  image_data,     \* the records collected by the indexing loop
  last_country, last_city,
  skipped,        \* files logged as "Skipping file"
  gi,             \* position of the grouping loop in image_data
  copy_list, prev_country, prev_city, prev_date, start_date,
  runs,           \* the do_files calls made so far, in order
  obs             \* observations of the execution (see ObsInit)

vars == <<dir, disk, made, copies, proc, pc, err, geo_service, CACHE_DB,
          location_cache, idx, cur, attempt, sleeps, image_data,
          last_country, last_city, skipped, gi, copy_list, prev_country,
          prev_city, prev_date, start_date, runs, obs>>

diskVars == <<dir, disk, made, copies>>
indexVars == <<image_data, last_country, last_city, skipped, idx>>
groupVars == <<gi, copy_list, prev_country, prev_city, prev_date, start_date, runs>>
geoVars == <<attempt, sleeps>>

Empty == <<>>
None == [isNone |-> TRUE, map |-> Empty]
Dict(m) == [isNone |-> FALSE, map |-> m]
NoCur == [path |-> "", lat |-> 0, lon |-> 0, cache_key |-> <<0, 0>>]

(* --------------------------- pure functions ---------------------------- *)
\* dict.get with a default, and `x or y`, `if x` on the values used here.
Has(d, k) == k \in DOMAIN d
Truthy(s) == s # "None" /\ s # ""
Or(a, b) == IF Truthy(a) THEN a ELSE b

NotCacheDb(db) == db.isNone \/ DOMAIN db.map = {}

\* repr((args, kwargs)): the argument tuple, written out.  No call passes a
\* keyword argument, and repr is one-to-one on tuples of strings and dicts.
repr(args) == args

\* sum([float(x) / 60 ** n for n, x in enumerate(value)]), in thousandths of
\* an arc second (1/3600000 of a degree).
Degrees(dms) == dms[1] * 3600000 + dms[2] * 60000 + dms[3]

get_coordinates(geotags) ==
  LET lat0 == IF Has(geotags, "GPSLatitude") THEN Degrees(geotags.GPSLatitude) ELSE 0
      lon0 == IF Has(geotags, "GPSLongitude") THEN Degrees(geotags.GPSLongitude) ELSE 0
      lat == IF Has(geotags, "GPSLatitudeRef") /\ geotags.GPSLatitudeRef = "S"
             THEN 0 - lat0 ELSE lat0
      lon == IF Has(geotags, "GPSLongitudeRef") /\ geotags.GPSLongitudeRef = "W"
             THEN 0 - lon0 ELSE lon0
  IN <<lat, lon>>

\* f"{x:.6f}": x rounded to a millionth of a degree.
Fmt6(u) == IF u >= 0 THEN (u * 10 + 18) \div 36 ELSE 0 - ((0 - u) * 10 + 18) \div 36
CacheKey(lat, lon) == <<Fmt6(lat), Fmt6(lon)>>

\* The first component of an address_components list whose types hold tag.
RECURSIVE ComponentWith(_, _, _)
ComponentWith(comps, tag, i) ==
  IF i > Len(comps) THEN "Unknown"
  ELSE IF tag \in comps[i].types THEN comps[i].long_name
  ELSE ComponentWith(comps, tag, i + 1)

get_city_from_address(address) ==
  IF Has(address, "address_components")
  THEN IF address.types = <<"plus_code">> THEN "Unknown"
       ELSE ComponentWith(address.address_components, "locality", 1)
  ELSE LET a1 == IF Has(address, "properties") THEN address.properties ELSE address
           a2 == IF Has(a1, "address") THEN a1.address ELSE a1
       IN IF Has(a2, "city") THEN a2.city
          ELSE IF Has(a2, "town") THEN a2.town
          ELSE IF Has(a2, "village") THEN a2.village
          ELSE "Unknown"

get_country_from_address(address) ==
  IF Has(address, "address_components")
  THEN IF address.types = <<"plus_code">> THEN "Unknown"
       ELSE ComponentWith(address.address_components, "country", 1)
  ELSE LET a1 == IF Has(address, "properties") THEN address.properties ELSE address
           a2 == IF Has(a1, "address") THEN a1.address ELSE a1
       IN IF Has(a2, "country") THEN a2.country ELSE "Unknown"

\* get_geotagging(exif): None without an EXIF block or without GPSInfo, else
\* the GPS tags of the picture (by id).
get_geotagging(f) == IF ~f.exif \/ f.gps = "none" THEN "none" ELSE f.gps

\* The two early returns of get_location.
HasCoordinates(g) ==
  /\ g # "none"
  /\ Has(GeoTags[g], "GPSLatitude")
  /\ Has(GeoTags[g], "GPSLongitude")

get_file_datetime(f) == f.mtime

\* get_date_taken(exif, file_path) of a picture that has an EXIF block.
get_date_taken(f) == IF f.dto # NoDate THEN f.dto ELSE get_file_datetime(f)

\* get_date_taken(exif, file_path, is_video=True), lines 223-229 and 236:
\* datetime.fromtimestamp(box.creation_time - 2082844800).date(), with days
\* counted from the epoch.
MacEpoch == 2082844800
SecondsPerDay == 86400
get_date_taken_video(f) ==
  IF f.mvhd # NoDate THEN (f.mvhd - MacEpoch) \div SecondsPerDay
  ELSE get_file_datetime(f)

IsImage(f) == f.ext \in {"png", "jpg", "jpeg"}
IsVideo(f) == f.ext = "mp4"

\* image_data.sort(key=lambda x: x[3]): a stable sort by date.
RECURSIVE InsertByDate(_, _)
InsertByDate(s, r) ==
  IF s = <<>> THEN <<r>>
  ELSE IF s[Len(s)][4] <= r[4] THEN Append(s, r)
  ELSE Append(InsertByDate(SubSeq(s, 1, Len(s) - 1), r), s[Len(s)])

RECURSIVE SortByDate(_)
SortByDate(s) ==
  IF s = <<>> THEN <<>>
  ELSE InsertByDate(SortByDate(SubSeq(s, 1, Len(s) - 1)), s[Len(s)])

\* click.Choice(['type1', 'type2', 'type3']) on the option's value (the
\* default 'google' when the option is not given).
\* An option that takes any string.
ChoiceAcceptsAny(g) == TRUE

ChoiceAccepts(g) == g \in Choices
\* The values tried: type3 takes the same branches as type2 everywhere.
OptionValues == {"type1", "type2", DefaultService}

\* What building the geolocator does in the if chain of the retry loop:
\* Geocodio is never imported, and the else branch raises.
Geolocator(g) ==
  IF g = "type1" THEN "NameError"
  ELSE IF g \in {"type2", "type3"} THEN "ok"
  ELSE "Invalid geo service"

\* Subdirectory name of do_files, kept as its parts.
Subdir(sd, ed, country, city) ==
  LET date_range == IF sd = ed THEN <<sd>> ELSE <<sd, ed>>
  IN IF Truthy(country) /\ Truthy(city)
     THEN [date_range |-> date_range, place |-> <<country, city>>]
     ELSE IF Truthy(country)
     THEN [date_range |-> date_range, place |-> <<country>>]
     ELSE [date_range |-> date_range, place |-> <<>>]

Put(m, k, v) == (k :> v) @@ m
Bump(m, k) == IF k \in DOMAIN m THEN [m EXCEPT ![k] = @ + 1] ELSE (k :> 1) @@ m

(* ------------------------------ the cache ------------------------------ *)
\* Lines 24-30 of wrapper: the global is (re)loaded when it is None or empty.
Loaded(db, cache_file) ==
  IF NotCacheDb(db)
  THEN IF disk[cache_file].exists THEN Dict(disk[cache_file].map) ELSE Dict(Empty)
  ELSE db

\* A wrapper that forgets to store.
StoredNothing(db, key, result) == db

\* CACHE_DB[key] = result
Stored(db, key, result) == Dict(Put(db.map, key, result))

\* pickle.dump(CACHE_DB, f) into cache_file
Dumped(d, cache_file, db) ==
  [d EXCEPT ![cache_file] = [exists |-> TRUE, map |-> db.map]]

(* ---------------------------- observations ----------------------------- *)
\* asked, calls: wrapper calls and calls of the wrapped function per key, in
\* this process.  firstUse: per cache file, the mapping the wrapper looked
\* the key up in at its first call of this process, and the file as it was.
\* persisted: <<file, key>> of every miss that stored and dumped, over all
\* processes.  lost: those of them the function was later called for again.
\* outcome, errors, raw: the last provider answer of the get_location call in
\* progress, its service errors so far, and the raw answer it got; requests:
\* the reverse() calls it made.  resolved: answered requests per cache_key in
\* this process.  located: the cache_key of every file whose get_location call
\* returned in this process.  raised: the keys whose last call of the wrapped
\* function, in any process, ended in an exception.
NotUsed == [used |-> FALSE, db |-> Empty, onDisk |-> [exists |-> FALSE, map |-> Empty]]
ObsInit ==
  [asked |-> Empty, calls |-> Empty,
   firstUse |-> [f \in CacheFiles |-> NotUsed],
   persisted |-> {}, lost |-> {},
   outcome |-> "", errors |-> 0, raw |-> "", requests |-> 0,
   resolved |-> Empty, located |-> Empty, raised |-> {}]

\* The locals of a get_location call are gone once its caller moves on.
Forget(o) == [o EXCEPT !.outcome = "", !.errors = 0, !.raw = "", !.requests = 0]

ObsAsk(o, cache_file, key, db) ==
  [o EXCEPT !.asked = Bump(@, key),
            !.firstUse[cache_file] =
               IF @.used THEN @
               ELSE [used |-> TRUE, db |-> db.map, onDisk |-> disk[cache_file]]]

ObsCall(o, cache_file, key) ==
  [o EXCEPT !.calls = Bump(@, key),
            !.lost = IF <<cache_file, key>> \in o.persisted
                     THEN @ \cup {<<cache_file, key>>} ELSE @]

ObsPersist(o, cache_file, key) ==
  [o EXCEPT !.persisted = @ \cup {<<cache_file, key>>},
            !.raised = @ \ {key}]

ObsRaise(o, key) == [o EXCEPT !.raised = @ \cup {key}]

(* ------------------------------ the process ---------------------------- *)
ProcInit ==
  /\ pc = "start"
  /\ err = ""
  /\ geo_service = ""
  /\ CACHE_DB = None
  /\ location_cache = Empty
  /\ idx = 1
  /\ cur = NoCur
  /\ attempt = 0
  /\ sleeps = 0
  /\ image_data = <<>>
  /\ last_country = "Unknown"
  /\ last_city = "Unknown"
  /\ skipped = {}
  /\ gi = 1
  /\ copy_list = <<>>
  /\ prev_country = ""
  /\ prev_city = ""
  /\ prev_date = NoDate
  /\ start_date = NoDate
  /\ runs = <<>>

Init ==
  /\ dir \in Directories
  /\ disk = [f \in CacheFiles |-> [exists |-> FALSE, map |-> Empty]]
  /\ made = {}
  /\ copies = {}
  /\ proc = 1
  /\ obs = ObsInit
  /\ ProcInit

\* An uncaught exception ends the process.
Raise(e) ==
  /\ pc' = "failed"
  /\ err' = e

FileAt(i) == dir[i]
PathAt(i) == Names[i]

\* The command line: click converts the option's value (or its default)
\* with the Choice type before cluster_images is called.
ParseArgsOk ==
  /\ pc = "start"
  /\ \E g \in OptionValues :
       /\ ChoiceAccepts(g)
       /\ geo_service' = g
  /\ pc' = IF Len(dir) = 0 THEN "sort" ELSE "index"
  /\ UNCHANGED <<diskVars, proc, err, CACHE_DB, location_cache, cur, geoVars,
                 indexVars, groupVars, obs>>

ParseArgsBad ==
  /\ pc = "start"
  /\ \E g \in OptionValues :
       /\ ~ChoiceAccepts(g)
       /\ geo_service' = g
  /\ Raise("UsageError")
  /\ UNCHANGED <<diskVars, proc, CACHE_DB, location_cache, cur, geoVars,
                 indexVars, groupVars, obs>>

\* An indexing loop that drops a dateless file without logging it.
LoopTailUnlogged(result) ==
  /\ idx' = idx + 1
  /\ pc' = IF idx + 1 > Len(dir) THEN "sort" ELSE "index"
  /\ IF result[3] = NoDate
     THEN UNCHANGED <<image_data, last_country, last_city, skipped>>
     ELSE /\ image_data' = Append(image_data,
                <<Names[idx], Or(result[1], last_country),
                  Or(result[2], last_city), result[3]>>)
          /\ last_country' = Or(result[1], last_country)
          /\ last_city' = Or(result[2], last_city)
          /\ UNCHANGED skipped

\* Lines 286-295: what the indexing loop does with the result of
\* get_metadata, and the step to the next file.
LoopTail(result) ==
  LET date == result[3]
      country == Or(result[1], last_country)
      city == Or(result[2], last_city)
  IN /\ idx' = idx + 1
     /\ pc' = IF idx + 1 > Len(dir) THEN "sort" ELSE "index"
     /\ IF date = NoDate
        THEN /\ skipped' = skipped \cup {PathAt(idx)}
             /\ UNCHANGED <<image_data, last_country, last_city>>
        ELSE /\ image_data' = Append(image_data, <<PathAt(idx), country, city, date>>)
             /\ last_country' = country
             /\ last_city' = city
             /\ UNCHANGED skipped

MetaKey == repr(<<PathAt(idx), geo_service>>)

\* get_metadata(file_path, geo_service) through the wrapper: a hit.
MetadataHit ==
  /\ pc = "index"
  /\ LET db == Loaded(CACHE_DB, MediaFile)
     IN /\ MetaKey \in DOMAIN db.map
        /\ CACHE_DB' = db
        /\ obs' = ObsAsk(Forget(obs), MediaFile, MetaKey, db)
        /\ LoopTail(db.map[MetaKey])
  /\ attempt' = 0
  /\ sleeps' = 0
  /\ UNCHANGED <<diskVars, proc, err, geo_service, location_cache, cur, groupVars>>

\* A wrapper that stores a placeholder before it calls the function.
MetadataMissPreStores ==
  /\ pc = "index"
  /\ LET db == Loaded(CACHE_DB, MediaFile)
         db2 == Stored(db, MetaKey, <<"None", "None", NoDate>>)
     IN /\ MetaKey \notin DOMAIN db.map
        /\ CACHE_DB' = db2
        /\ disk' = Dumped(disk, MediaFile, db2)
        /\ obs' = ObsCall(ObsAsk(Forget(obs), MediaFile, MetaKey, db),
                          MediaFile, MetaKey)
  /\ pc' = "get_metadata"
  /\ cur' = [NoCur EXCEPT !.path = PathAt(idx)]
  /\ attempt' = 0
  /\ sleeps' = 0
  /\ UNCHANGED <<dir, made, copies, proc, err, geo_service, location_cache,
                 indexVars, groupVars>>

\* ... a miss: the wrapper calls get_metadata.
MetadataMiss ==
  /\ pc = "index"
  /\ LET db == Loaded(CACHE_DB, MediaFile)
     IN /\ MetaKey \notin DOMAIN db.map
        /\ CACHE_DB' = db
        /\ obs' = ObsCall(ObsAsk(Forget(obs), MediaFile, MetaKey, db),
                          MediaFile, MetaKey)
  /\ pc' = "get_metadata"
  /\ cur' = [NoCur EXCEPT !.path = PathAt(idx)]
  /\ attempt' = 0
  /\ sleeps' = 0
  /\ UNCHANGED <<diskVars, proc, err, geo_service, location_cache, indexVars,
                 groupVars>>

\* get_metadata returns result: lines 37-43 of the wrapper, then the tail of
\* the indexing loop.  o is obs as the caller leaves it.
Return(result, o) ==
  LET db == Stored(CACHE_DB, MetaKey, result)
  IN /\ CACHE_DB' = db
     /\ disk' = Dumped(disk, MediaFile, db)
     /\ obs' = ObsPersist(o, MediaFile, MetaKey)
     /\ cur' = NoCur
     /\ LoopTail(result)

\* Line 248: neither a picture nor a video.
BodyUnsupported ==
  /\ pc = "get_metadata"
  /\ ~IsImage(FileAt(idx)) /\ ~IsVideo(FileAt(idx))
  /\ Return(<<"None", "None", NoDate>>, obs)
  /\ UNCHANGED <<dir, made, copies, proc, err, geo_service, location_cache,
                 geoVars, groupVars>>

\* Lines 246-247: a video.
BodyVideo ==
  /\ pc = "get_metadata"
  /\ ~IsImage(FileAt(idx)) /\ IsVideo(FileAt(idx))
  /\ Return(<<"None", "None", get_file_datetime(FileAt(idx))>>, obs)
  /\ UNCHANGED <<dir, made, copies, proc, err, geo_service, location_cache,
                 geoVars, groupVars>>

\* Lines 241-245 for a picture whose get_location returns early (162-167),
\* and that has an EXIF block for get_date_taken to read.
BodyNoCoordinates ==
  /\ pc = "get_metadata"
  /\ IsImage(FileAt(idx))
  /\ ~HasCoordinates(get_geotagging(FileAt(idx)))
  /\ FileAt(idx).exif
  /\ Return(<<"Unknown", "Unknown", get_date_taken(FileAt(idx))>>, obs)
  /\ UNCHANGED <<dir, made, copies, proc, err, geo_service, location_cache,
                 geoVars, groupVars>>

\* ... and without an EXIF block: exif is None, and `36867 in exif` in
\* get_date_taken raises TypeError.
BodyNoExif ==
  /\ pc = "get_metadata"
  /\ IsImage(FileAt(idx))
  /\ ~HasCoordinates(get_geotagging(FileAt(idx)))
  /\ ~FileAt(idx).exif
  /\ Raise("TypeError")
  /\ obs' = ObsRaise(obs, MetaKey)
  /\ UNCHANGED <<diskVars, proc, geo_service, CACHE_DB, location_cache, cur,
                 geoVars, indexVars, groupVars>>

\* Line 169: get_coordinates(geotags) through the wrapper, for a picture with
\* both coordinates.  The hit.
CoordKey == repr(<<get_geotagging(FileAt(idx))>>)

CoordinatesHit ==
  /\ pc = "get_metadata"
  /\ IsImage(FileAt(idx))
  /\ HasCoordinates(get_geotagging(FileAt(idx)))
  /\ LET db == Loaded(CACHE_DB, GeoFile)
     IN /\ CoordKey \in DOMAIN db.map
        /\ CACHE_DB' = db
        /\ obs' = ObsAsk(obs, GeoFile, CoordKey, db)
        /\ cur' = [cur EXCEPT !.lat = db.map[CoordKey][1],
                              !.lon = db.map[CoordKey][2],
                              !.cache_key = CacheKey(db.map[CoordKey][1],
                                                     db.map[CoordKey][2])]
  /\ pc' = "get_location"
  /\ UNCHANGED <<diskVars, proc, err, geo_service, location_cache, geoVars,
                 indexVars, groupVars>>

\* ... and the miss: compute, store, dump into geo_coordinate_cache.pkl.
CoordinatesMiss ==
  /\ pc = "get_metadata"
  /\ IsImage(FileAt(idx))
  /\ HasCoordinates(get_geotagging(FileAt(idx)))
  /\ LET db == Loaded(CACHE_DB, GeoFile)
         result == get_coordinates(GeoTags[get_geotagging(FileAt(idx))])
         db2 == Stored(db, CoordKey, result)
     IN /\ CoordKey \notin DOMAIN db.map
        /\ CACHE_DB' = db2
        /\ disk' = Dumped(disk, GeoFile, db2)
        /\ obs' = ObsPersist(ObsCall(ObsAsk(obs, GeoFile, CoordKey, db),
                                     GeoFile, CoordKey),
                             GeoFile, CoordKey)
        /\ cur' = [cur EXCEPT !.lat = result[1], !.lon = result[2],
                              !.cache_key = CacheKey(result[1], result[2])]
  /\ pc' = "get_location"
  /\ UNCHANGED <<dir, made, copies, proc, err, geo_service, location_cache,
                 geoVars, indexVars, groupVars>>

\* Lines 173-175: the location is in location_cache.
LocationHit ==
  /\ pc = "get_location"
  /\ cur.cache_key \in DOMAIN location_cache
  /\ Return(<<location_cache[cur.cache_key][1], location_cache[cur.cache_key][2],
              get_date_taken(FileAt(idx))>>,
            [obs EXCEPT !.outcome = "hit",
                        !.located = Put(@, cur.path, cur.cache_key)])
  /\ UNCHANGED <<dir, made, copies, proc, err, geo_service, location_cache,
                 geoVars, groupVars>>

\* ... or is not: enter the retry loop.
LocationMiss ==
  /\ pc = "get_location"
  /\ cur.cache_key \notin DOMAIN location_cache
  /\ pc' = "geocode"
  /\ attempt' = 0
  /\ sleeps' = 0
  /\ obs' = Forget(obs)
  /\ UNCHANGED <<diskVars, proc, err, geo_service, CACHE_DB, location_cache, cur,
                 indexVars, groupVars>>

\* Lines 180-190: building the geolocator raises (NameError for type1, the
\* else branch for an unknown name); only GeocoderServiceError is caught.
AttemptRaise ==
  /\ pc = "geocode"
  /\ attempt < RetryBudget
  /\ Geolocator(geo_service) # "ok"
  /\ Raise(Geolocator(geo_service))
  /\ obs' = ObsRaise([obs EXCEPT !.outcome = "raise"], MetaKey)
  /\ UNCHANGED <<diskVars, proc, geo_service, CACHE_DB, location_cache, cur,
                 geoVars, indexVars, groupVars>>

\* A retry loop that does not count its attempts.
AttemptServiceErrorUncounted ==
  /\ pc = "geocode"
  /\ attempt < RetryBudget
  /\ Geolocator(geo_service) = "ok"
  /\ sleeps' = sleeps + 1
  /\ obs' = [obs EXCEPT !.outcome = "error", !.errors = @ + 1, !.requests = @ + 1]
  /\ UNCHANGED <<diskVars, proc, pc, err, geo_service, CACHE_DB, location_cache,
                 cur, attempt, indexVars, groupVars>>

\* A retry loop that does not back off.
AttemptServiceErrorNoSleep ==
  /\ pc = "geocode"
  /\ attempt < RetryBudget
  /\ Geolocator(geo_service) = "ok"
  /\ attempt' = attempt + 1
  /\ obs' = [obs EXCEPT !.outcome = "error", !.errors = @ + 1, !.requests = @ + 1]
  /\ UNCHANGED <<diskVars, proc, pc, err, geo_service, CACHE_DB, location_cache,
                 cur, sleeps, indexVars, groupVars>>

\* Lines 196-199: the request raises GeocoderServiceError.
AttemptServiceError ==
  /\ pc = "geocode"
  /\ attempt < RetryBudget
  /\ Geolocator(geo_service) = "ok"
  /\ attempt' = attempt + 1
  /\ sleeps' = sleeps + 1
  /\ obs' = [obs EXCEPT !.outcome = "error", !.errors = @ + 1, !.requests = @ + 1]
  /\ UNCHANGED <<diskVars, proc, pc, err, geo_service, CACHE_DB, location_cache,
                 cur, indexVars, groupVars>>

\* Lines 191-194: the request returns None.
AttemptNone ==
  /\ pc = "geocode"
  /\ attempt < RetryBudget
  /\ Geolocator(geo_service) = "ok"
  /\ Raise("Query failed")
  /\ obs' = ObsRaise([obs EXCEPT !.outcome = "none", !.requests = @ + 1], MetaKey)
  /\ UNCHANGED <<diskVars, proc, geo_service, CACHE_DB, location_cache, cur,
                 geoVars, indexVars, groupVars>>

\* A get_location that forgets line 210.
AttemptOkNoStore ==
  /\ pc = "geocode"
  /\ attempt < RetryBudget
  /\ Geolocator(geo_service) = "ok"
  /\ \E raw \in RawNames :
       LET city == get_city_from_address(Raws[raw])
           country == get_country_from_address(Raws[raw])
       IN Return(<<country, city, get_date_taken(dir[idx])>>,
                 [obs EXCEPT !.outcome = "ok", !.raw = raw, !.requests = @ + 1,
                             !.resolved = Bump(@, cur.cache_key),
                             !.located = Put(@, cur.path, cur.cache_key)])
  /\ UNCHANGED <<dir, made, copies, proc, err, geo_service, location_cache,
                 geoVars, groupVars>>

\* Lines 195, 203-215, then 245: the request answers; get_location stores
\* and returns (country, city) and get_metadata returns.
AttemptOk ==
  /\ pc = "geocode"
  /\ attempt < RetryBudget
  /\ Geolocator(geo_service) = "ok"
  /\ \E raw \in RawNames :
       LET city == get_city_from_address(Raws[raw])
           country == get_country_from_address(Raws[raw])
       IN /\ location_cache' = Put(location_cache, cur.cache_key, <<country, city>>)
          /\ Return(<<country, city, get_date_taken(FileAt(idx))>>,
                    [obs EXCEPT !.outcome = "ok", !.raw = raw, !.requests = @ + 1,
                                !.resolved = Bump(@, cur.cache_key),
                                !.located = Put(@, cur.path, cur.cache_key)])
  /\ UNCHANGED <<dir, made, copies, proc, err, geo_service, geoVars, groupVars>>

\* A lenient get_location: out of attempts, it answers Unknown.
ExhaustedDegrades ==
  /\ pc = "geocode"
  /\ attempt = RetryBudget
  /\ Return(<<"Unknown", "Unknown", get_date_taken(dir[idx])>>, obs)
  /\ UNCHANGED <<dir, made, copies, proc, err, geo_service, location_cache,
                 geoVars, groupVars>>

\* Lines 200-201: the loop ran out of attempts.
Exhausted ==
  /\ pc = "geocode"
  /\ attempt = RetryBudget
  /\ Raise("Geo location query failed")
  /\ obs' = ObsRaise(obs, MetaKey)
  /\ UNCHANGED <<diskVars, proc, geo_service, CACHE_DB, location_cache, cur,
                 geoVars, indexVars, groupVars>>

(* ------------------------------ grouping ------------------------------- *)
\* do_files(shutil.copy2, files, sd, ed, output_directory, country, city)
do_files(files, sd, ed, country, city) ==
  /\ runs' = Append(runs, [files |-> files, start_date |-> sd, end_date |-> ed,
                           country |-> country, city |-> city])
  /\ IF sd = NoDate \/ ed = NoDate
     THEN UNCHANGED <<made, copies>>
     ELSE /\ made' = made \cup {Subdir(sd, ed, country, city)}
          /\ copies' = copies \cup
               { <<Subdir(sd, ed, country, city), files[i]>> : i \in 1..Len(files) }

\* Lines 299-308 on an empty image_data: image_data[0] raises IndexError.
GroupEmpty ==
  /\ pc = "sort"
  /\ image_data = <<>>
  /\ Raise("IndexError")
  /\ attempt' = 0
  /\ sleeps' = 0
  /\ obs' = Forget(obs)
  /\ UNCHANGED <<diskVars, proc, geo_service, CACHE_DB, location_cache, cur,
                 indexVars, groupVars>>

\* A loop that is not seeded from the first record.
GroupStartUnseeded ==
  /\ pc = "sort"
  /\ image_data # <<>>
  /\ image_data' = SortByDate(image_data)
  /\ prev_country' = ""
  /\ prev_city' = ""
  /\ prev_date' = SortByDate(image_data)[1][4]
  /\ start_date' = SortByDate(image_data)[1][4]
  /\ copy_list' = <<>>
  /\ gi' = 1
  /\ pc' = "process"
  /\ attempt' = 0
  /\ sleeps' = 0
  /\ obs' = Forget(obs)
  /\ UNCHANGED <<diskVars, proc, err, geo_service, CACHE_DB, location_cache, cur,
                 last_country, last_city, skipped, idx, runs>>

\* Lines 299-308: sort, and seed the loop from the first record.
GroupStart ==
  /\ pc = "sort"
  /\ image_data # <<>>
  /\ LET sorted == SortByDate(image_data)
     IN /\ image_data' = sorted
        /\ prev_country' = sorted[1][2]
        /\ prev_city' = sorted[1][3]
        /\ prev_date' = sorted[1][4]
        /\ start_date' = sorted[1][4]
  /\ copy_list' = <<>>
  /\ gi' = 1
  /\ pc' = "process"
  /\ attempt' = 0
  /\ sleeps' = 0
  /\ obs' = Forget(obs)
  /\ UNCHANGED <<diskVars, proc, err, geo_service, CACHE_DB, location_cache, cur,
                 last_country, last_city, skipped, idx, runs>>

\* A grouping that compares the country alone.
SameLocationCountryOnly(rec, country, city) == rec[2] = country

SameLocation(rec, country, city) == rec[2] = country /\ rec[3] = city

\* A loop that forgets line 321 when the record continues the run.
GroupSameKeepsDate ==
  /\ pc = "process"
  /\ gi <= Len(image_data)
  /\ SameLocation(image_data[gi], prev_country, prev_city)
  /\ copy_list' = Append(copy_list, image_data[gi][1])
  /\ gi' = gi + 1
  /\ UNCHANGED <<diskVars, proc, pc, err, geo_service, CACHE_DB, location_cache,
                 cur, geoVars, indexVars, prev_country, prev_city, prev_date,
                 start_date, runs, obs>>

\* Lines 312-314, 321: the record continues the run.
GroupSame ==
  /\ pc = "process"
  /\ gi <= Len(image_data)
  /\ SameLocation(image_data[gi], prev_country, prev_city)
  /\ copy_list' = Append(copy_list, image_data[gi][1])
  /\ prev_date' = image_data[gi][4]
  /\ gi' = gi + 1
  /\ UNCHANGED <<diskVars, proc, pc, err, geo_service, CACHE_DB, location_cache,
                 cur, geoVars, indexVars, prev_country, prev_city, start_date,
                 runs, obs>>

\* Lines 315-321: the record starts a new run; the old one is written.
GroupChange ==
  /\ pc = "process"
  /\ gi <= Len(image_data)
  /\ ~SameLocation(image_data[gi], prev_country, prev_city)
  /\ do_files(copy_list, start_date, prev_date, prev_country, prev_city)
  /\ copy_list' = <<image_data[gi][1]>>
  /\ prev_country' = image_data[gi][2]
  /\ prev_city' = image_data[gi][3]
  /\ start_date' = image_data[gi][4]
  /\ prev_date' = image_data[gi][4]
  /\ gi' = gi + 1
  /\ UNCHANGED <<dir, disk, proc, pc, err, geo_service, CACHE_DB, location_cache,
                 cur, geoVars, indexVars, obs>>

\* Line 325: the last group.
GroupLast ==
  /\ pc = "process"
  /\ gi > Len(image_data)
  /\ do_files(copy_list, start_date, prev_date, prev_country, prev_city)
  /\ pc' = "done"
  /\ UNCHANGED <<dir, disk, proc, err, geo_service, CACHE_DB, location_cache, cur,
                 geoVars, indexVars, gi, copy_list, prev_country, prev_city,
                 prev_date, start_date, obs>>

\* The program is run again: module globals start afresh, files stay.
Restart ==
  /\ pc \in {"done", "failed"}
  /\ proc < MaxProcs
  /\ proc' = proc + 1
  /\ pc' = "start"
  /\ err' = ""
  /\ geo_service' = ""
  /\ CACHE_DB' = None
  /\ location_cache' = Empty
  /\ idx' = 1
  /\ cur' = NoCur
  /\ attempt' = 0
  /\ sleeps' = 0
  /\ image_data' = <<>>
  /\ last_country' = "Unknown"
  /\ last_city' = "Unknown"
  /\ skipped' = {}
  /\ gi' = 1
  /\ copy_list' = <<>>
  /\ prev_country' = ""
  /\ prev_city' = ""
  /\ prev_date' = NoDate
  /\ start_date' = NoDate
  /\ runs' = <<>>
  /\ obs' = [ObsInit EXCEPT !.persisted = obs.persisted, !.lost = obs.lost,
                            !.raised = obs.raised]
  /\ UNCHANGED diskVars

Next ==
  \/ ParseArgsOk \/ ParseArgsBad
  \/ MetadataHit \/ MetadataMiss
  \/ BodyUnsupported \/ BodyVideo \/ BodyNoCoordinates \/ BodyNoExif
  \/ CoordinatesHit \/ CoordinatesMiss
  \/ LocationHit \/ LocationMiss
  \/ AttemptRaise \/ AttemptServiceError \/ AttemptNone \/ AttemptOk \/ Exhausted
  \/ GroupEmpty \/ GroupStart \/ GroupSame \/ GroupChange \/ GroupLast
  \/ Restart

Spec == Init /\ [][Next]_vars

\* A pass of the retry loop (lines 178-201).
LookupStep ==
  AttemptRaise \/ AttemptServiceError \/ AttemptNone \/ AttemptOk \/ Exhausted

\* The interpreter keeps executing the loop it is in: a provider request
\* returns or raises, and the loop's next step is taken.
SpecLive == Spec /\ WF_vars(LookupStep)

(* ------------------- the grouping loop on its own ---------------------- *)
\* The state at the end of an indexing loop in which every get_metadata call
\* was a hit: the records are whatever an earlier run cached, in listing
\* order, and the files themselves were not read.
Places == { <<"Unknown", "Unknown">>, <<"France", "Paris">>,
            <<"France", "Lyon">>, <<"Spain", "Madrid">> }

CachedKind == [ext |-> "jpg", exif |-> TRUE, gps |-> "none", dto |-> 1,
               mtime |-> 2, mvhd |-> NoDate]

InitGroup ==
  \E n \in 0..MaxLen :
    \E place \in [1..n -> Places], date \in [1..n -> 1..MaxDate] :
      LET m == [k \in { repr(<<Names[i], "type2">>) : i \in 1..n } |->
                  LET i == CHOOSE j \in 1..n : Names[j] = k[1]
                  IN <<place[i][1], place[i][2], date[i]>>]
      IN /\ dir = [i \in 1..n |-> CachedKind]
         /\ disk = [f \in CacheFiles |->
                      IF f = MediaFile /\ n > 0 THEN [exists |-> TRUE, map |-> m]
                      ELSE [exists |-> FALSE, map |-> Empty]]
         /\ made = {}
         /\ copies = {}
         /\ proc = 1
         /\ pc = "sort"
         /\ err = ""
         /\ geo_service = "type2"
         /\ CACHE_DB = IF n > 0 THEN Dict(m) ELSE None
         /\ location_cache = Empty
         /\ idx = n + 1
         /\ cur = NoCur
         /\ attempt = 0
         /\ sleeps = 0
         /\ image_data = [i \in 1..n |-> <<Names[i], place[i][1], place[i][2], date[i]>>]
         /\ last_country = IF n > 0 THEN place[n][1] ELSE "Unknown"
         /\ last_city = IF n > 0 THEN place[n][2] ELSE "Unknown"
         /\ skipped = {}
         /\ gi = 1
         /\ copy_list = <<>>
         /\ prev_country = ""
         /\ prev_city = ""
         /\ prev_date = NoDate
         /\ start_date = NoDate
         /\ runs = <<>>
         /\ obs = ObsInit

NextGroup == GroupEmpty \/ GroupStart \/ GroupSame \/ GroupChange \/ GroupLast

SpecGroup == InitGroup /\ [][NextGroup]_vars

(* ------------------------------- claims -------------------------------- *)
RECURSIVE Flatten(_)
Flatten(rs) ==
  IF rs = <<>> THEN <<>>
  ELSE Flatten(SubSeq(rs, 1, Len(rs) - 1)) \o rs[Len(rs)].files

Paths(n) == [i \in 1..n |-> image_data[i][1]]
RecordOf(p) == CHOOSE i \in 1..Len(image_data) : image_data[i][1] = p
Slots == UNION { { <<k, j>> : j \in 1..Len(runs[k].files) } : k \in 1..Len(runs) }
RunsWith(p) == { s \in Slots : runs[s[1]].files[s[2]] = p }
RunOf(p) == CHOOSE k \in 1..Len(runs) : \E j \in 1..Len(runs[k].files) : runs[k].files[j] = p
Location(rec) == <<rec[2], rec[3]>>

\* C1: the copy lists of the runs emitted by the grouping loop, put end to
\* end (with the list being built while the loop runs), are the paths of the
\* records taken so far, in order; every file of a run has the run's
\* (country, city); and two neighbouring records with one date and two
\* locations are in different runs once the loop is done.
C1_RunsReconstructInput ==
  /\ pc = "process" => Flatten(runs) \o copy_list = Paths(gi - 1)
  /\ pc = "done" => Flatten(runs) = Paths(Len(image_data))
  /\ pc \in {"process", "done"} =>
       \A k \in 1..Len(runs) : \A j \in 1..Len(runs[k].files) :
          Location(image_data[RecordOf(runs[k].files[j])]) =
            <<runs[k].country, runs[k].city>>
  /\ pc = "done" =>
       \A i \in 1..(Len(image_data) - 1) :
          /\ image_data[i][4] = image_data[i + 1][4]
          /\ Location(image_data[i]) # Location(image_data[i + 1])
          => RunOf(image_data[i][1]) # RunOf(image_data[i + 1][1])

\* C1 witness: the loop is done with two records of one date, the first
\* Unknown and the second in Madrid, and has emitted more than one run.
C1_Witness ==
  /\ pc = "done"
  /\ Len(runs) >= 2
  /\ \E i \in 1..(Len(image_data) - 1) :
       /\ image_data[i][4] = image_data[i + 1][4]
       /\ Location(image_data[i]) = <<"Unknown", "Unknown">>
       /\ Location(image_data[i + 1]) = <<"Spain", "Madrid">>

\* C2: when cluster_images has finished, every listed file is either logged
\* as skipped or in exactly one run, once, and copied to that run's
\* directory; never both, never neither.
C2_CopiedOrSkipped ==
  pc = "done" =>
    \A i \in 1..Len(dir) :
      LET p == Names[i]
      IN IF p \in skipped
         THEN RunsWith(p) = {}
         ELSE /\ Cardinality(RunsWith(p)) = 1
              /\ LET r == runs[RunOf(p)]
                 IN <<Subdir(r.start_date, r.end_date, r.country, r.city), p>> \in copies

\* C2 witness: a finished run that skipped one file and copied another.
C2_Witness ==
  /\ pc = "done"
  /\ skipped # {}
  /\ \E i \in 1..Len(dir) : Names[i] \notin skipped

Count(m, k) == IF k \in DOMAIN m THEN m[k] ELSE 0

\* The key of the get_metadata call that has not returned, if there is one.
Pending ==
  IF cur.path # "" THEN {repr(<<cur.path, geo_service>>)} ELSE {}

\* C3: in one process the wrapped function is called at most once per key,
\* and a key whose call has returned stays in the mapping, so that the next
\* call with these arguments is a hit.
C3_ComputedOncePerProcess ==
  \A k \in DOMAIN obs.asked :
    /\ Count(obs.calls, k) <= 1
    /\ k \notin Pending => k \in DOMAIN CACHE_DB.map

\* C3 witness: a key asked for twice in this process and computed once, with
\* a call of the other cached function in between.
C3_Witness ==
  \E k \in DOMAIN obs.asked :
    /\ obs.asked[k] >= 2
    /\ Count(obs.calls, k) = 1
    /\ Len(k) = 1

\* C4: an entry that a miss stored and dumped into its file is never
\* computed again, in this process or a later one.
C4_NeverRecomputed == obs.lost = {}

\* C5: at the first call through a cache file's wrapper in a process, the
\* mapping the key is looked up in is that file's content, or empty when the
\* file does not exist.
C5_FirstUseLoadsOwnFile ==
  \A f \in CacheFiles :
    obs.firstUse[f].used =>
      obs.firstUse[f].db =
        (IF obs.firstUse[f].onDisk.exists THEN obs.firstUse[f].onDisk.map ELSE Empty)

\* The (country, city) each raw answer stands for.
Answer == [paris |-> <<"France", "Paris">>, plus |-> <<"Unknown", "Unknown">>,
           madrid |-> <<"Spain", "Madrid">>]

\* C6: when the provider answers after k service errors, k is below the
\* budget, exactly k sleeps were made, and the answer's (country, city) is
\* what get_metadata returned for the file (the entry stored for it).
C6_RetryThenSuccess ==
  obs.outcome = "ok" =>
    /\ obs.errors < RetryBudget
    /\ sleeps = obs.errors
    /\ LET k == repr(<<Names[idx - 1], geo_service>>)
       IN /\ k \in DOMAIN CACHE_DB.map
          /\ <<CACHE_DB.map[k][1], CACHE_DB.map[k][2]>> = Answer[obs.raw]

\* C6 witness: two service errors, then an answer.
C6_Witness ==
  /\ obs.outcome = "ok"
  /\ obs.errors = 2
  /\ sleeps = 2

\* C7: a request that returns None leaves get_location in its retry loop.
C7_NoneIsRetried == obs.outcome = "none" => pc = "geocode"

\* C8 as claimed: after a service error on every attempt of the budget, the
\* run has not aborted.
C8_ExhaustionDegrades == obs.errors = RetryBudget => pc # "failed"

\* C8 as amended: after a service error on every attempt of the budget,
\* get_location raises "Geo location query failed" and the run ends there:
\* the file is neither cached, indexed nor skipped, and nothing is grouped.
C8_ExhaustionAborts ==
  obs.errors = RetryBudget /\ pc # "geocode" =>
    /\ pc = "failed"
    /\ err = "Geo location query failed"
    /\ repr(<<Names[idx], geo_service>>) \notin DOMAIN CACHE_DB.map
    /\ \A i \in 1..Len(image_data) : image_data[i][1] # Names[idx]
    /\ Names[idx] \notin skipped
    /\ runs = <<>>

\* C8 witness: the run has failed after ten service errors and ten sleeps.
C8_Witness ==
  /\ obs.errors = RetryBudget
  /\ sleeps = RetryBudget
  /\ pc = "failed"

\* C9: with a provider name that is none of type1, type2, type3 the run ends
\* with a usage error before cluster_images does anything: no cached call,
\* no provider request, no record, no do_files call, the cache not loaded.
C9_UnknownProviderAborts ==
  geo_service \notin Choices \cup {""} =>
    /\ pc = "failed"
    /\ err = "UsageError"
    /\ obs.asked = Empty
    /\ obs.outcome = ""
    /\ CACHE_DB = None
    /\ image_data = <<>>
    /\ skipped = {}
    /\ runs = <<>>

\* C9 witness: a second run over a non-empty directory and a cache file left
\* by the first, given the name google.
C9_Witness ==
  /\ geo_service = DefaultService
  /\ pc = "failed"
  /\ Len(dir) > 0
  /\ disk[MediaFile].exists

\* C10: when indexing ends with no record (an empty directory, or every file
\* skipped), the run completes normally with no run emitted.
C10_EmptyStreamCompletes ==
  /\ geo_service \in Choices
  /\ idx > Len(dir)
  /\ image_data = <<>>
  /\ pc # "sort"
  => pc = "done" /\ err = "" /\ runs = <<>>

\* The file a path names.
KindOf(p) == dir[CHOOSE i \in 1..Len(dir) : Names[i] = p]

\* C11: every record of a video that enters grouping has country Unknown and
\* city Unknown, whatever was indexed before it.
C11_VideoIsUnknown ==
  \A i \in 1..Len(image_data) :
    IsVideo(KindOf(image_data[i][1])) =>
      Location(image_data[i]) = <<"Unknown", "Unknown">>

DirOf(r) == Subdir(r.start_date, r.end_date, r.country, r.city)
FilesOf(r) == { r.files[j] : j \in 1..Len(r.files) }

\* C12: when the grouping loop is done, there are as many output directories
\* as emitted runs, two runs never share a directory, and each run's
\* directory holds exactly that run's files.
C12_OneDirectoryPerRun ==
  pc = "done" =>
    /\ Cardinality(made) = Len(runs)
    /\ \A k, l \in 1..Len(runs) : k # l => DirOf(runs[k]) # DirOf(runs[l])
    /\ \A k \in 1..Len(runs) :
         { c[2] : c \in { x \in copies : x[1] = DirOf(runs[k]) } } = FilesOf(runs[k])

\* C13: the label of a run has no Unknown in it: a run with location Unknown
\* is labelled with its dates alone; and a directory of one picture without
\* EXIF and GPS ends as one run labelled with the file's modification date.
C13_UnknownOmittedFromLabel ==
  /\ \A k \in 1..Len(runs) :
       /\ <<runs[k].country, runs[k].city>> = <<"Unknown", "Unknown">>
            => DirOf(runs[k]).place = <<>>
       /\ \A j \in 1..Len(DirOf(runs[k]).place) : DirOf(runs[k]).place[j] # "Unknown"
  /\ ( /\ Len(dir) = 1
       /\ IsImage(dir[1]) /\ ~dir[1].exif
       /\ geo_service \in Choices
       /\ pc \in {"done", "failed"} )
     => /\ pc = "done"
        /\ Len(runs) = 1
        /\ DirOf(runs[1]) = [date_range |-> <<get_file_datetime(dir[1])>>, place |-> <<>>]

DatesOf(r) == { image_data[RecordOf(r.files[j])][4] : j \in 1..Len(r.files) }
Least(S) == CHOOSE x \in S : \A y \in S : x <= y
Greatest(S) == CHOOSE x \in S : \A y \in S : x >= y

\* C14: every emitted run is written from the date of its first record, which
\* is its earliest, to the date of its last record, which is its latest; its
\* directory exists and is labelled with that one date when the two are
\* equal and with both otherwise; and when all records have one location the
\* finished loop has emitted one run, holding all of them.
C14_LabelSpansRun ==
  /\ \A k \in 1..Len(runs) :
       LET r == runs[k]
       IN /\ r.start_date = image_data[RecordOf(r.files[1])][4]
          /\ r.start_date = Least(DatesOf(r))
          /\ r.end_date = image_data[RecordOf(r.files[Len(r.files)])][4]
          /\ r.end_date = Greatest(DatesOf(r))
          /\ DirOf(r) \in made
          /\ DirOf(r).date_range =
               IF Cardinality(DatesOf(r)) = 1 THEN <<Least(DatesOf(r))>>
               ELSE <<Least(DatesOf(r)), Greatest(DatesOf(r))>>
  /\ ( /\ pc = "done"
       /\ \A i \in 1..Len(image_data) : Location(image_data[i]) = Location(image_data[1]) )
     => /\ Len(runs) = 1
        /\ runs[1].files = Paths(Len(image_data))

\* C14 witness: three records of days 1, 1, 2, all in Paris, grouped into one
\* run whose directory is labelled from day 1 to day 2.
C14_Witness ==
  /\ pc = "done"
  /\ Len(image_data) = 3
  /\ \A i \in 1..3 : Location(image_data[i]) = <<"France", "Paris">>
  /\ <<image_data[1][4], image_data[2][4], image_data[3][4]>> = <<1, 1, 2>>
  /\ made = {[date_range |-> <<1, 2>>, place |-> <<"France", "Paris">>]}

\* The get_metadata call for file i was made in this process and is over.
CallOver(i) ==
  /\ repr(<<Names[i], geo_service>>) \in DOMAIN obs.calls
  /\ \/ i < idx
     \/ i = idx /\ pc = "failed"

\* C15: for a picture without an EXIF block, without GPSInfo or with one
\* coordinate only, get_metadata returns (Unknown, Unknown) and the
\* DateTimeOriginal day, or the modification day when there is none; the run
\* does not end there.
C15_MissingMetadataRecovered ==
  \A i \in 1..Len(dir) :
    ( /\ IsImage(dir[i])
      /\ ~HasCoordinates(get_geotagging(dir[i]))
      /\ CallOver(i) )
    => LET k == repr(<<Names[i], geo_service>>)
       IN /\ i < idx
          /\ k \in DOMAIN CACHE_DB.map
          /\ CACHE_DB.map[k] =
               <<"Unknown", "Unknown",
                 IF dir[i].exif /\ dir[i].dto # NoDate THEN dir[i].dto ELSE dir[i].mtime>>

\* C16: the record of a video is dated by the creation time of its
\* movie-header box, and by the file's modification day only without it.
C16_VideoDateFromHeader ==
  \A i \in 1..Len(image_data) :
    IsVideo(KindOf(image_data[i][1])) =>
      image_data[i][4] = get_date_taken_video(KindOf(image_data[i][1]))

PlaceOf(p) ==
  LET v == CACHE_DB.map[repr(<<p, geo_service>>)] IN <<v[1], v[2]>>

\* C17: in one process the provider answers at most once per rounded
\* coordinate key; the answer stays in location_cache; a later get_location
\* call with that key returns from the cache without a request; and all
\* files with one key get the (country, city) stored under it.
C17_OneAnswerPerKey ==
  /\ \A k \in DOMAIN obs.resolved :
       /\ obs.resolved[k] <= 1
       /\ k \in DOMAIN location_cache
  /\ obs.outcome = "hit" => obs.requests = 0
  /\ \A p \in DOMAIN obs.located :
       /\ obs.located[p] \in DOMAIN location_cache
       /\ PlaceOf(p) = location_cache[obs.located[p]]

\* C17 witness: two pictures whose tags differ by a thousandth of a second
\* round to one key; the provider answered once and the second was a hit.
C17_Witness ==
  /\ obs.outcome = "hit"
  /\ \E i, j \in 1..Len(dir) :
       /\ i < j
       /\ dir[i].gps = "G1" /\ dir[j].gps = "G2"
       /\ {Names[i], Names[j]} \subseteq DOMAIN obs.located
       /\ obs.located[Names[i]] = obs.located[Names[j]]
       /\ obs.resolved[obs.located[Names[i]]] = 1

RunPlace(r) == <<r.country, r.city>>

\* C18: no emitted run is empty; two runs emitted one after the other, and
\* the last emitted run and the one being built, differ in (country, city),
\* both as passed to do_files and as recorded for their files; and the
\* finished loop has emitted the run that ends with the last record.
C18_RunsAreMaximal ==
  /\ \A k \in 1..Len(runs) : runs[k].files # <<>>
  /\ \A k \in 1..Len(runs) :
       RunPlace(runs[k]) = Location(image_data[RecordOf(runs[k].files[1])])
  /\ \A k \in 1..(Len(runs) - 1) : RunPlace(runs[k]) # RunPlace(runs[k + 1])
  /\ pc = "process" /\ runs # <<>> =>
       RunPlace(runs[Len(runs)]) # <<prev_country, prev_city>>
  /\ pc = "done" =>
       /\ runs # <<>>
       /\ LET last == runs[Len(runs)]
          IN last.files[Len(last.files)] = image_data[Len(image_data)][1]

\* C18 witness: the loop is done and its final run holds a single file.
C18_Witness ==
  /\ pc = "done"
  /\ Len(runs) >= 2
  /\ Len(runs[Len(runs)].files) = 1

InRetryLoop == pc = "geocode"

\* C19: a get_location call issues one request per attempt and never more
\* than RetryBudget of them (no 11th request), each pass of the retry loop
\* that stays in the loop uses up one attempt, and every call that enters
\* the loop leaves it, whatever the provider answers.
C19_BoundedRequests ==
  /\ [](/\ obs.requests <= RetryBudget
        /\ attempt <= RetryBudget
        /\ InRetryLoop => obs.requests = attempt)
  /\ [][InRetryLoop /\ InRetryLoop' =>
          attempt' = attempt + 1 /\ obs'.requests = obs.requests + 1]_vars
  /\ (InRetryLoop ~> ~InRetryLoop)

\* C19 witness: the provider failed every time; the call has spent its whole
\* budget, issued exactly RetryBudget requests, and has ended.
C19_Witness ==
  /\ pc = "failed"
  /\ err = "Geo location query failed"
  /\ obs.requests = RetryBudget
  /\ obs.errors = RetryBudget

Failures == {"TypeError", "NameError", "Invalid geo service", "Query failed",
             "Geo location query failed"}
LookupFailures == Failures \ {"TypeError"}

\* C20: when get_metadata raises, nothing is stored under the call's key in
\* CACHE_DB or in either cache file, and location_cache has no entry for a
\* lookup that failed; a key whose last call raised is in no mapping and in
\* no file, in this process and after a restart, so the next call with the
\* same arguments is a miss.
C20_FailuresNotCached ==
  /\ pc = "failed" /\ err \in Failures =>
       /\ MetaKey \in obs.raised
       /\ MetaKey \notin DOMAIN CACHE_DB.map
       /\ \A f \in CacheFiles : MetaKey \notin DOMAIN disk[f].map
  /\ pc = "failed" /\ err \in LookupFailures =>
       cur.cache_key \notin DOMAIN location_cache
  /\ \A k \in obs.raised :
       /\ ~CACHE_DB.isNone => k \notin DOMAIN CACHE_DB.map
       /\ \A f \in CacheFiles : k \notin DOMAIN disk[f].map
  /\ \A k \in DOMAIN location_cache :
       \E p \in DOMAIN obs.located : obs.located[p] = k

\* C20 witness: a call raised in the first process and, after the restart,
\* the wrapper calls get_metadata again with the same arguments.
C20_Witness ==
  /\ proc = 2
  /\ pc = "get_metadata"
  /\ MetaKey \in obs.raised
  /\ Count(obs.calls, MetaKey) = 1

====
